---- MODULE Spec2Model ----
(***************************************************************************)
(* Model of the PDF question-answering service: text normalisation and     *)
(* chunking (app/services/pdf_service.py), ingestion into the database     *)
(* (save_pdf_to_db) and the staged question resolution                     *)
(* (app/services/gemini_service.py, answer_question_with_ai).              *)
(*                                                                         *)
(* A text is held run-length encoded: a sequence of runs [c, n], n > 0     *)
(* copies of the character c, no two neighbouring runs of the same         *)
(* character.  Lengths are therefore the program's own (3000, 300, ...).   *)
(***************************************************************************)
EXTENDS Integers, Sequences, FiniteSets, TLC

(* ----------------------------------------------------------------------- *)
(* Program constants                                                       *)
(* ----------------------------------------------------------------------- *)
MAX_CHUNK_SIZE == 3000
MIN_CHUNK_SIZE == 300
CHUNK_OVERLAP == 300
EMBEDDING_DIM == 128
PLACEHOLDER_DIM == 10
FALLBACK_TEXT_LIMIT == 1000
TOP_CHUNKS == 8
MAX_WINDOW_SIZE == 7000
WINDOW_MIN_CONTENT == 500
CONTEXT_BUDGET == 15000
SEPARATOR_LEN == 7
ASK_TIMEOUT_S == 60
LLM_TIMEOUT_S == 90
TOP_K_CHUNKS == 3
SEARCH_THRESHOLD == 30
SEARCH_TOP == 10

(* ----------------------------------------------------------------------- *)
(* Bounds of the model                                                     *)
(* ----------------------------------------------------------------------- *)
MaxTokens == 5
MaxCleanTokens == 5
MaxPdfs == 2
MaxScored == 4
MaxFallbackLen == 9000
MaxRequests == 2
MaxTicks == 3

(* ----------------------------------------------------------------------- *)
(* Characters and run-length encoded strings                               *)
(* ----------------------------------------------------------------------- *)
\* "a", "b", "A": printable letters; "sp": space; "nl": newline; "cr":
\* carriage return (white space, not printable); "bt": backtick.
Chars == {"a", "b", "A", "sp", "nl", "cr", "bt"}

Run(c, n) == [c |-> c, n |-> n]

\* str.isprintable() of one character
isprintable(c) == c \in {"a", "b", "A", "sp", "bt"}

\* str.isspace() of one character: what strip() and the regex class \s match
isspace(c) == c \in {"sp", "nl", "cr"}

RECURSIVE Canon(_)
\* the string a sequence of runs spells: neighbouring runs of one character
\* are one run, empty runs are nothing
Canon(s) ==
    IF s = <<>> THEN <<>>
    ELSE LET r == Canon(Tail(s))
             h == Head(s)
         IN  IF h.n = 0 THEN r
             ELSE IF r # <<>> /\ Head(r).c = h.c
                  THEN <<Run(h.c, h.n + Head(r).n)>> \o Tail(r)
                  ELSE <<h>> \o r

\* a + b on strings
Concat(s, t) == Canon(s \o t)

RECURSIVE StrLen(_)
\* len(s)
StrLen(s) == IF s = <<>> THEN 0 ELSE Head(s).n + StrLen(Tail(s))

RECURSIVE Take(_, _)
\* s[:k]
Take(s, k) ==
    IF k <= 0 \/ s = <<>> THEN <<>>
    ELSE IF Head(s).n >= k THEN <<Run(Head(s).c, k)>>
         ELSE <<Head(s)>> \o Take(Tail(s), k - Head(s).n)

RECURSIVE Drop(_, _)
\* s[k:]
Drop(s, k) ==
    IF k <= 0 \/ s = <<>> THEN s
    ELSE IF Head(s).n > k THEN <<Run(Head(s).c, Head(s).n - k)>> \o Tail(s)
         ELSE Drop(Tail(s), k - Head(s).n)

\* s[i:j]
Slice(s, i, j) == Take(Drop(s, i), j - i)

RECURSIVE LStrip(_)
LStrip(s) == IF s # <<>> /\ isspace(Head(s).c) THEN LStrip(Tail(s)) ELSE s

RECURSIVE RStrip(_)
RStrip(s) ==
    IF s # <<>> /\ isspace(s[Len(s)].c) THEN RStrip(SubSeq(s, 1, Len(s) - 1)) ELSE s

\* str.strip()
strip(s) == RStrip(LStrip(s))

(* ----------------------------------------------------------------------- *)
(* clean_text                                                              *)
(* ----------------------------------------------------------------------- *)
\* re.sub(c{2,}, c, text): every run of two or more c becomes one c
CollapseRuns(s, c) ==
    [i \in 1..Len(s) |-> IF s[i].c = c /\ s[i].n >= 2 THEN Run(c, 1) ELSE s[i]]

\* ''.join(ch for ch in text if ch.isprintable() or ch == '\n')
KeepPrintable(s) ==
    Canon([i \in 1..Len(s) |->
              IF isprintable(s[i].c) \/ s[i].c = "nl" THEN s[i] ELSE Run(s[i].c, 0)])

clean_text(text) ==
    strip(KeepPrintable(CollapseRuns(CollapseRuns(text, "nl"), "sp")))

(* ----------------------------------------------------------------------- *)
(* split_text_into_chunks                                                  *)
(* ----------------------------------------------------------------------- *)
Min(x, y) == IF x <= y THEN x ELSE y

RECURSIVE WsEnd(_, _)
\* the last index of the white-space stretch of s that starts at i
WsEnd(s, i) == IF i < Len(s) /\ isspace(s[i + 1].c) THEN WsEnd(s, i + 1) ELSE i

RECURSIVE CountIn(_, _, _, _)
\* the number of characters c in s[i..j]
CountIn(s, i, j, c) ==
    IF i > j THEN 0
    ELSE (IF s[i].c = c THEN s[i].n ELSE 0) + CountIn(s, i + 1, j, c)

RECURSIVE ReSplit(_, _, _)
\* re.split(r'\n\s*\n', text) from run i on, cur being the piece read so far:
\* a white-space stretch holding two newlines or more is cut from its first
\* newline to its last one (the leftmost, greedy match)
ReSplit(s, i, cur) ==
    IF i > Len(s) THEN <<cur>>
    ELSE IF ~isspace(s[i].c) THEN ReSplit(s, i + 1, cur \o <<s[i]>>)
    ELSE LET j == WsEnd(s, i)
             nls == {k \in i..j : s[k].c = "nl"}
         IN  IF CountIn(s, i, j, "nl") >= 2
             THEN LET f == CHOOSE k \in nls : \A m \in nls : k <= m
                      l == CHOOSE k \in nls : \A m \in nls : m <= k
                  IN  <<cur \o SubSeq(s, i, f - 1)>>
                         \o ReSplit(s, j + 1, SubSeq(s, l + 1, j))
             ELSE ReSplit(s, j + 1, cur \o SubSeq(s, i, j))

\* [p.strip() for p in re.split(r'\n\s*\n', text) if p.strip()]
Paragraphs(text) ==
    SelectSeq([i \in 1..Len(ReSplit(text, 1, <<>>)) |-> strip(ReSplit(text, 1, <<>>)[i])],
              LAMBDA p : p # <<>>)

\* paragraph.count("```")
MarkerCount(paragraph) ==
    LET RECURSIVE cnt(_)
        cnt(i) == IF i > Len(paragraph) THEN 0
                  ELSE (IF paragraph[i].c = "bt" THEN paragraph[i].n \div 3 ELSE 0)
                       + cnt(i + 1)
    IN  cnt(1)

\* the in_code_block flag after reading paragraph
NextInCodeBlock(in_code_block, paragraph) ==
    IF MarkerCount(paragraph) > 0 /\ MarkerCount(paragraph) % 2 = 1
    THEN ~in_code_block
    ELSE in_code_block

ShouldFlushNoMin(current_chunk, paragraph) ==
    StrLen(current_chunk) + StrLen(paragraph) > MAX_CHUNK_SIZE

\* the test that emits the buffer before paragraph is taken
ShouldFlush(current_chunk, paragraph) ==
    /\ StrLen(current_chunk) + StrLen(paragraph) > MAX_CHUNK_SIZE
    /\ StrLen(current_chunk) >= MIN_CHUNK_SIZE

AppendParagraphDropOnFlush(st, paragraph) ==
    IF ShouldFlush(st.current_chunk, paragraph)
    THEN [st EXCEPT !.chunks = Append(@, strip(st.current_chunk)),
                    !.current_chunk = <<>>]
    ELSE [st EXCEPT !.current_chunk =
              IF @ # <<>> THEN Concat(Concat(@, <<Run("nl", 2)>>), paragraph)
              ELSE paragraph]

\* one round of the loop over the paragraphs; both branches of the code-block
\* test of the source do the same
AppendParagraph(st, paragraph) ==
    LET icb == NextInCodeBlock(st.in_code_block, paragraph)
        s1 == [st EXCEPT !.in_code_block = icb]
    IN  IF icb \/ MarkerCount(paragraph) > 0
        THEN IF ShouldFlush(s1.current_chunk, paragraph)
             THEN [s1 EXCEPT !.chunks = Append(@, strip(s1.current_chunk)),
                             !.current_chunk = paragraph]
             ELSE [s1 EXCEPT !.current_chunk =
                       IF @ # <<>> THEN Concat(Concat(@, <<Run("nl", 2)>>), paragraph)
                       ELSE paragraph]
        ELSE IF ShouldFlush(s1.current_chunk, paragraph)
             THEN [s1 EXCEPT !.chunks = Append(@, strip(s1.current_chunk)),
                             !.current_chunk = paragraph]
             ELSE [s1 EXCEPT !.current_chunk =
                       IF @ # <<>> THEN Concat(Concat(@, <<Run("nl", 2)>>), paragraph)
                       ELSE paragraph]

RECURSIVE ChunkLoop(_, _, _)
\* for paragraph in paragraphs, from the i-th on
ChunkLoop(paragraphs, i, st) ==
    IF i > Len(paragraphs) THEN st
    ELSE ChunkLoop(paragraphs, i + 1, AppendParagraph(st, paragraphs[i]))

\* the chunks of the paragraph path, the last buffer included
ParagraphChunks(text) ==
    LET st == ChunkLoop(Paragraphs(text), 1,
                        [chunks |-> <<>>, current_chunk |-> <<>>,
                         in_code_block |-> FALSE])
    IN  IF st.current_chunk # <<>>
        THEN Append(st.chunks, strip(st.current_chunk))
        ELSE st.chunks

\* the windows <<from, to>> of the character-based fallback over n characters
FallbackWindows(n) ==
    [k \in 1..((n + (MAX_CHUNK_SIZE - CHUNK_OVERLAP) - 1)
                  \div (MAX_CHUNK_SIZE - CHUNK_OVERLAP)) |->
        LET i0 == (k - 1) * (MAX_CHUNK_SIZE - CHUNK_OVERLAP)
            i == IF i0 > 0 THEN i0 - CHUNK_OVERLAP ELSE i0
        IN  <<i, Min(i + MAX_CHUNK_SIZE, n)>>]

FallbackChunks(text) ==
    [k \in 1..Len(FallbackWindows(StrLen(text))) |->
        Slice(text, FallbackWindows(StrLen(text))[k][1],
                    FallbackWindows(StrLen(text))[k][2])]

FitsOneChunkMin(text) == StrLen(text) <= MIN_CHUNK_SIZE

\* the test that returns the cleaned text as the only chunk
FitsOneChunk(text) == StrLen(text) <= MAX_CHUNK_SIZE

split_text_into_chunks(text0) ==
    LET text == clean_text(text0)
    IN  IF FitsOneChunk(text) THEN <<text>>
        ELSE IF ParagraphChunks(text) = <<>> THEN FallbackChunks(text)
             ELSE ParagraphChunks(text)

(* ----------------------------------------------------------------------- *)
(* Embeddings (only the shape of a vector is modelled)                     *)
(* ----------------------------------------------------------------------- *)
\* get_embeddings(texts): one vector of EMBEDDING_DIM numbers per text
get_embeddings(texts) ==
    [i \in 1..Len(texts) |-> [dim |-> EMBEDDING_DIM, kind |-> "simple"]]

\* json.dumps([0.0] * 10)
PlaceholderEmbedding == [dim |-> PLACEHOLDER_DIM, kind |-> "placeholder"]

(* ----------------------------------------------------------------------- *)
(* State                                                                   *)
(* ----------------------------------------------------------------------- *)
VARIABLES
    text,          \* the argument of the text function under test
    tpc,           \* "input", "cleaned", "recleaned" or "split"
    cleaned,       \* clean_text(text)
    recleaned,     \* clean_text(clean_text(text))
    chunks_out,    \* split_text_into_chunks(text)
    windows,       \* the <<from, to>> pairs the character fallback cut at
    chunk_scores,  \* the (chunk, score) pairs handed to the similarity ranking
    ranked,        \* the ranking made of them
    pdfs,          \* table pdfs: the committed ids
    pdf_contents,  \* table pdf_contents: committed rows [pdf_id, text_content]
    pdf_chunks,    \* table pdf_chunks: committed rows
    last_save,     \* how the last save_pdf_to_db call ended
    last_delete,   \* how the last call ended, if it was delete_pdf
    llm_env,       \* the LLM settings of the environment
    ask_pc,        \* where the running answer_question_with_ai call stands
    ask,           \* its locals
    now,              \* time.time(), in seconds
    recent_responses, \* the response cache of /ask-ai: cache_key -> entry
    response_lock,    \* the request holding the cache lock, 0 when free
    requests          \* the /ask-ai requests in flight and served

textVars == <<text, tpc, cleaned, recleaned, chunks_out, windows, chunk_scores,
              ranked>>
dbVars == <<pdfs, pdf_contents, pdf_chunks, last_save, last_delete>>
askVars == <<llm_env, ask_pc, ask>>
cacheVars == <<now, recent_responses, response_lock, requests>>
vars == <<text, tpc, cleaned, recleaned, chunks_out, windows, chunk_scores, ranked,
          pdfs, pdf_contents, pdf_chunks, last_save, last_delete,
          llm_env, ask_pc, ask,
          now, recent_responses, response_lock, requests>>

(* ----------------------------------------------------------------------- *)
(* Inputs                                                                  *)
(* ----------------------------------------------------------------------- *)
Break == <<Run("nl", 1), Run("sp", 1), Run("nl", 1)>>

\* the pieces the texts under test are built from
Tokens ==
    { <<Run("b", 1)>>, <<Run("a", MIN_CHUNK_SIZE)>>, <<Run("a", MAX_CHUNK_SIZE)>>,
      <<Run("sp", 1)>>, <<Run("nl", 1)>>, <<Run("cr", 1)>>, <<Run("bt", 3)>>, Break }

RECURSIVE Flatten(_)
Flatten(ts) == IF ts = <<>> THEN <<>> ELSE Concat(Head(ts), Flatten(Tail(ts)))

\* the arguments of split_text_into_chunks
TextInputs == {Flatten(ts) : ts \in UNION {[1..n -> Tokens] : n \in 0..MaxTokens}}

\* the pieces the arguments of clean_text are built from
CleanTokens == { <<Run("b", 1)>>, <<Run("sp", 1)>>, <<Run("nl", 1)>>, <<Run("cr", 1)>> }

\* the arguments of clean_text
CleanInputs ==
    {Flatten(ts) : ts \in UNION {[1..n -> CleanTokens] : n \in 0..MaxCleanTokens}}

\* the extracted texts handed to save_pdf_to_db
UploadTexts ==
    { <<>>,
      <<Run("b", 1)>>,
      <<Run("a", FALLBACK_TEXT_LIMIT), Run("b", 1)>>,
      Flatten(<<<<Run("a", MAX_CHUNK_SIZE)>>, Break, <<Run("b", 1)>>>>),
      Flatten(<<<<Run("a", MAX_CHUNK_SIZE)>>, Break, <<Run("b", MIN_CHUNK_SIZE)>>,
                Break, <<Run("a", MAX_CHUNK_SIZE)>>>>) }

NoSave == [result |-> "none", id |-> 0, failed |-> "none"]

\* no ranking made yet
NoRanking == [by |-> "none", pdf_id |-> 0, query_dim |-> 0, sorted |-> <<>>, top |-> <<>>]

RankIdle == chunk_scores = <<>> /\ ranked = NoRanking

TextIdle ==
    /\ text = <<>> /\ tpc = "idle" /\ cleaned = <<>> /\ recleaned = <<>>
    /\ chunks_out = <<>> /\ windows = <<>>
    /\ RankIdle

NoDelete == [result |-> "none", id |-> 0]

DbEmpty ==
    /\ pdfs = {} /\ pdf_contents = <<>> /\ pdf_chunks = <<>> /\ last_save = NoSave
    /\ last_delete = NoDelete

\* no dictionary returned yet
NoReturn == [success |-> FALSE, message |-> "none", answer |-> "none", sources |-> <<>>]

NoAsk ==
    [question |-> <<>>, pdf_id |-> 0, route |-> "none", simplify |-> FALSE,
     keywords |-> <<>>, relevant_chunks |-> <<>>, top_chunks |-> <<>>,
     pdf_contents |-> <<>>, pdf_titles |-> <<>>, stages |-> <<>>,
     context_docs |-> {}, context_len |-> 0,
     keyword_reply |-> "none", windowed_reply |-> "none", sliding_reply |-> "none",
     answer_text |-> "none", calls |-> 0, elapsed |-> 0, cut |-> FALSE,
     result |-> "none", returned |-> NoReturn, status |-> 0]

AskIdle == llm_env = "configured" /\ ask_pc = "idle" /\ ask = NoAsk

\* no request yet, the cache as the module creates it
CacheIdle ==
    /\ now = 0 /\ recent_responses = {} /\ response_lock = 0 /\ requests = <<>>

(* ----------------------------------------------------------------------- *)
(* The text functions, applied                                             *)
(* ----------------------------------------------------------------------- *)
CallCleanText ==
    /\ tpc = "input"
    /\ cleaned' = clean_text(text)
    /\ tpc' = "cleaned"
    /\ UNCHANGED <<text, recleaned, chunks_out, windows, chunk_scores, ranked>>
    /\ UNCHANGED dbVars /\ UNCHANGED askVars /\ UNCHANGED cacheVars

CallCleanTextAgain ==
    /\ tpc = "cleaned"
    /\ recleaned' = clean_text(cleaned)
    /\ tpc' = "recleaned"
    /\ UNCHANGED <<text, cleaned, chunks_out, windows, chunk_scores, ranked>>
    /\ UNCHANGED dbVars /\ UNCHANGED askVars /\ UNCHANGED cacheVars

CallSplit ==
    /\ tpc = "input"
    /\ chunks_out' = split_text_into_chunks(text)
    /\ tpc' = "split"
    /\ UNCHANGED <<text, cleaned, recleaned, windows, chunk_scores, ranked>>
    /\ UNCHANGED dbVars /\ UNCHANGED askVars /\ UNCHANGED cacheVars

CleanInit ==
    /\ text \in CleanInputs
    /\ tpc = "input" /\ cleaned = <<>> /\ recleaned = <<>> /\ chunks_out = <<>>
    /\ windows = <<>>
    /\ RankIdle
    /\ DbEmpty /\ AskIdle /\ CacheIdle

CleanNext == CallCleanText \/ CallCleanTextAgain

\* clean_text applied once and twice to every argument
SpecClean == CleanInit /\ [][CleanNext]_vars

SplitInit ==
    /\ text \in TextInputs
    /\ tpc = "input" /\ cleaned = <<>> /\ recleaned = <<>> /\ chunks_out = <<>>
    /\ windows = <<>>
    /\ RankIdle
    /\ DbEmpty /\ AskIdle /\ CacheIdle

SplitNext == CallSplit

\* split_text_into_chunks applied to every argument
SpecSplit == SplitInit /\ [][SplitNext]_vars

\* Texts for the character fallback: one paragraph longer than a chunk.
FallbackInputs ==
    { <<Run("a", n - 1), Run("b", 1)>> :
        n \in {m \in (MAX_CHUNK_SIZE + 1)..MaxFallbackLen : m % 50 \in {0, 1}} }

\* the loop of the character fallback, run on its own (split_text_into_chunks
\* does not get to it)
CallFallback ==
    /\ tpc = "input"
    /\ windows' = FallbackWindows(StrLen(text))
    /\ chunks_out' = FallbackChunks(text)
    /\ tpc' = "fallback"
    /\ UNCHANGED <<text, cleaned, recleaned, chunk_scores, ranked>>
    /\ UNCHANGED dbVars /\ UNCHANGED askVars /\ UNCHANGED cacheVars

FallbackInit ==
    /\ text \in FallbackInputs
    /\ tpc = "input" /\ cleaned = <<>> /\ recleaned = <<>> /\ chunks_out = <<>>
    /\ windows = <<>>
    /\ RankIdle
    /\ DbEmpty /\ AskIdle /\ CacheIdle

FallbackNext == CallFallback

\* the character fallback applied to every text
SpecFallback == FallbackInit /\ [][FallbackNext]_vars

(* ----------------------------------------------------------------------- *)
(* Properties of the text functions (checked under SpecText)               *)
(* ----------------------------------------------------------------------- *)
\* s without its white space
NonWs(s) == Canon(SelectSeq(s, LAMBDA r : ~isspace(r.c)))

\* s without its paragraph breaks (the matches of \n\s*\n)
RemoveBreaks(s) == Flatten(ReSplit(s, 1, <<>>))

\* the chunks one after the other, the blank-line joiners inside them removed
JoinedChunks(chunks) == Flatten([i \in 1..Len(chunks) |-> RemoveBreaks(chunks[i])])

\* the text took the paragraph path of split_text_into_chunks
OnParagraphPath(t) == StrLen(clean_text(t)) > MAX_CHUNK_SIZE

\* no run of two or more newlines, none of two or more spaces
NoDoubleRuns(s) ==
    \A i \in 1..Len(s) : s[i].c \in {"nl", "sp"} => s[i].n < 2

\* C4 as stated: a text of at most MAX_CHUNK_SIZE characters comes back as
\* the one chunk [T].
C4_SmallTextIsItsOnlyChunk ==
    (tpc = "split" /\ StrLen(text) <= MAX_CHUNK_SIZE) => chunks_out = <<text>>

\* C4 amended: a text of at most MAX_CHUNK_SIZE characters comes back as the
\* one chunk [clean_text(T)].
C4_SmallTextIsOneCleanedChunk ==
    (tpc = "split" /\ StrLen(text) <= MAX_CHUNK_SIZE)
        => chunks_out = <<clean_text(text)>>

C4_Witness ==
    /\ tpc = "split" /\ StrLen(text) <= MAX_CHUNK_SIZE
    /\ StrLen(text) > MIN_CHUNK_SIZE
    /\ clean_text(text) # text
    /\ Len(chunks_out) = 1

\* C5: every chunk split_text_into_chunks returns has at most MAX_CHUNK_SIZE
\* characters.
C5_ChunksSizeBounded ==
    tpc = "split" =>
        \A i \in 1..Len(chunks_out) : StrLen(chunks_out[i]) <= MAX_CHUNK_SIZE

C7_OnlyLastChunkMayBeShort ==
    tpc = "split" =>
        /\ \A i \in 1..(Len(chunks_out) - 1) :
              StrLen(chunks_out[i]) >= MIN_CHUNK_SIZE
        /\ OnParagraphPath(text) =>
              LET ps == Paragraphs(clean_text(text))
                  lastp == ps[Len(ps)]
                  lastc == chunks_out[Len(chunks_out)]
              IN  /\ ps # <<>> /\ chunks_out # <<>>
                  /\ Drop(lastc, StrLen(lastc) - StrLen(lastp)) = lastp

C7_Witness ==
    /\ tpc = "split" /\ Len(chunks_out) >= 2
    /\ StrLen(chunks_out[Len(chunks_out)]) < MIN_CHUNK_SIZE

\* C8: clean_text(clean_text(x)) = clean_text(x).
C8_CleanTextIdempotent ==
    tpc = "recleaned" => recleaned = cleaned

\* C9: the output of clean_text has no run of two or more newlines and no run
\* of two or more spaces.
C9_CleanTextCollapsesRuns ==
    tpc \in {"cleaned", "recleaned"} => NoDoubleRuns(cleaned)

\* the cleaned text is one paragraph: it holds no blank-line break
IsSingleParagraph(t) == Len(ReSplit(clean_text(t), 1, <<>>)) = 1

\* C20: a text longer than MAX_CHUNK_SIZE that is a single paragraph comes
\* back as the fixed-size windows of the character fallback, not as the
\* result of the paragraph path.
C20_SingleParagraphFallsBack ==
    (tpc = "split" /\ OnParagraphPath(text) /\ IsSingleParagraph(text))
        => /\ chunks_out = FallbackChunks(clean_text(text))
           /\ chunks_out # ParagraphChunks(clean_text(text))

Faults ==
    { f \in [early : {"none", "pdf", "content"}, split : BOOLEAN,
             emb : -1..2, ph : -1..2, fb : BOOLEAN,
             commit : BOOLEAN, verify : BOOLEAN] :
        /\ f.early # "none" =>
              ~f.split /\ f.emb = -1 /\ f.ph = -1 /\ ~f.fb /\ ~f.commit /\ ~f.verify
        /\ f.split => f.emb = -1
        /\ f.emb = -1 => f.ph = -1
        /\ f.fb => (f.split \/ f.ph >= 0)
        /\ f.fb => (~f.commit /\ ~f.verify)
        /\ f.commit => ~f.verify }

\* the id the flush of a new PDF row gives it
NewPdfId == IF pdfs = {} THEN 1 ELSE 1 + CHOOSE m \in pdfs : \A x \in pdfs : x <= m

\* the text stored: a message stands in for an empty or blank extraction
NoTextMessage == <<Run("b", 2), Run("sp", 1), Run("b", 2)>>

StoredText(text_content) ==
    IF text_content = <<>> \/ strip(text_content) = <<>>
    THEN NoTextMessage ELSE text_content

ChunkRow(id, chunk, i, embedding) ==
    [pdf_id |-> id, chunk_text |-> chunk, chunk_index |-> i, embedding |-> embedding]

\* the rows the loop over zip(chunks, embeddings) adds before its k-th round
EmbeddedRows(id, chunks, k) ==
    [i \in 1..Min(k, Min(Len(chunks), Len(get_embeddings(chunks)))) |->
        ChunkRow(id, chunks[i], i - 1, get_embeddings(chunks)[i])]

\* the rows the loop of the embedding-error handler adds before its j-th round
PlaceholderRows(id, chunks, j) ==
    [i \in 1..Min(j, Len(chunks)) |-> ChunkRow(id, chunks[i], i - 1, PlaceholderEmbedding)]

\* the row the chunking-error handler adds
FallbackRow(id, text_content) ==
    ChunkRow(id,
             IF StrLen(text_content) > FALLBACK_TEXT_LIMIT
             THEN Take(text_content, FALLBACK_TEXT_LIMIT) ELSE text_content,
             0, PlaceholderEmbedding)

\* The chunk rows the session holds when the chunk block (the nested
\* try/except) is left, and whether it is left by an exception.  A row added
\* before a failure stays in the session: no handler removes it.
SessionChunks(id, text_content, f) ==
    IF f.split
    THEN [raised |-> f.fb, rows |-> <<FallbackRow(id, text_content)>>]
    ELSE LET chunks == split_text_into_chunks(text_content)
             n == Len(chunks)
         IN  IF f.emb = -1
             THEN [raised |-> FALSE, rows |-> EmbeddedRows(id, chunks, n)]
             ELSE IF f.ph = -1
                  THEN [raised |-> FALSE,
                        rows |-> EmbeddedRows(id, chunks, f.emb)
                                    \o PlaceholderRows(id, chunks, n)]
                  ELSE [raised |-> f.fb,
                        rows |-> EmbeddedRows(id, chunks, f.emb)
                                    \o PlaceholderRows(id, chunks, f.ph)
                                    \o <<FallbackRow(id, text_content)>>]

\* the failure points a text with its number of chunks has
FaultFits(text_content, f) ==
    LET n == Len(split_text_into_chunks(StoredText(text_content)))
    IN  f.emb < n /\ f.ph < n

\* what failed in a call: nothing, the embedding of the chunks (get_embeddings
\* or the loop that saves the embedded chunks) and nothing else, or something
\* else
FailedAt(f) ==
    IF f.emb >= 0 /\ f.early = "none" /\ ~f.split /\ f.ph = -1 /\ ~f.fb /\ ~f.commit
                  /\ ~f.verify
    THEN "embedding"
    ELSE IF f.early = "none" /\ ~f.split /\ f.emb = -1 /\ f.ph = -1 /\ ~f.fb
              /\ ~f.commit /\ ~f.verify
    THEN "none" ELSE "other"

\* the call raises although its rows are committed
RaisedAfterCommit(f) == f.verify

save_pdf_to_db(text_content, f) ==
    LET id == NewPdfId
        stored == StoredText(text_content)
        sess == SessionChunks(id, stored, f)
    IN  /\ Cardinality(pdfs) < MaxPdfs
        /\ id <= MaxPdfs
        /\ FaultFits(text_content, f)
        /\ last_delete' = NoDelete
        /\ IF f.early = "pdf"
           THEN \* rollback, raise
                /\ last_save' = [result |-> "raised", id |-> 0, failed |-> FailedAt(f)]
                /\ UNCHANGED <<pdfs, pdf_contents, pdf_chunks>>
           ELSE IF f.early = "content" \/ sess.raised \/ f.commit
           THEN \* rollback, raise
                /\ last_save' = [result |-> "raised", id |-> id, failed |-> FailedAt(f)]
                /\ UNCHANGED <<pdfs, pdf_contents, pdf_chunks>>
           ELSE \* commit
                /\ pdfs' = pdfs \cup {id}
                /\ pdf_contents' =
                      Append(pdf_contents, [pdf_id |-> id, text_content |-> stored])
                /\ pdf_chunks' = pdf_chunks \o sess.rows
                /\ last_save' =
                      [result |-> IF RaisedAfterCommit(f) THEN "raised" ELSE "returned",
                       id |-> id, failed |-> FailedAt(f)]
        /\ UNCHANGED textVars /\ UNCHANGED askVars /\ UNCHANGED cacheVars

SavePdf == \E t \in UploadTexts, f \in Faults : save_pdf_to_db(t, f)

\* Where a call of delete_pdf fails: "session", a query, a delete or the
\* commit raises; "cleanup", the removal of the file or the look-up after the
\* commit raises.
DeleteFaults == {"none", "session", "cleanup"}

RowsWithoutKept(rows, pdf_id) == rows

\* db.query(...).filter(... .pdf_id == pdf_id).delete()
RowsWithout(rows, pdf_id) == SelectSeq(rows, LAMBDA r : r.pdf_id # pdf_id)

\* DELETE /pdf/{pdf_id}: the content rows, the chunk rows and the PDF row go
\* in one commit; an exception before it rolls all of it back, one after it
\* finds nothing to roll back
delete_pdf(pdf_id, f) ==
    /\ IF pdf_id \notin pdfs
       THEN /\ last_delete' = [result |-> "not_found", id |-> pdf_id]
            /\ UNCHANGED <<pdfs, pdf_contents, pdf_chunks>>
       ELSE IF f = "session"
       THEN /\ last_delete' = [result |-> "error", id |-> pdf_id]
            /\ UNCHANGED <<pdfs, pdf_contents, pdf_chunks>>
       ELSE /\ pdf_contents' = RowsWithout(pdf_contents, pdf_id)
            /\ pdf_chunks' = RowsWithout(pdf_chunks, pdf_id)
            /\ pdfs' = pdfs \ {pdf_id}
            /\ last_delete' = [result |-> IF f = "cleanup" THEN "error" ELSE "deleted",
                               id |-> pdf_id]
    /\ UNCHANGED last_save
    /\ UNCHANGED textVars /\ UNCHANGED askVars /\ UNCHANGED cacheVars

DeletePdf == \E id \in 1..MaxPdfs, f \in DeleteFaults : delete_pdf(id, f)

Init == TextIdle /\ DbEmpty /\ AskIdle /\ CacheIdle

Next == SavePdf

\* uploads, each call failing wherever it can
Spec == Init /\ [][Next]_vars

(* ----------------------------------------------------------------------- *)
(* Properties of ingestion (checked under Spec)                            *)
(* ----------------------------------------------------------------------- *)
ContentsOf(id) == SelectSeq(pdf_contents, LAMBDA r : r.pdf_id = id)

ChunksOf(id) == SelectSeq(pdf_chunks, LAMBDA r : r.pdf_id = id)

\* C1: every committed document has exactly one content row and at least one
\* chunk, and a call of save_pdf_to_db that raised has committed no document,
\* no content and no chunk.
C1_SaveIsAtomic ==
    /\ \A id \in pdfs : Len(ContentsOf(id)) = 1 /\ Len(ChunksOf(id)) >= 1
    /\ last_save.result = "raised" =>
          /\ last_save.id \notin pdfs
          /\ ContentsOf(last_save.id) = <<>>
          /\ ChunksOf(last_save.id) = <<>>

\* C2: every persisted chunk carries a vector of the configured dimension.
C2_ChunkVectorsHaveConfiguredDim ==
    \A i \in 1..Len(pdf_chunks) : pdf_chunks[i].embedding.dim = EMBEDDING_DIM

\* C3: the chunk indices of a committed document with n chunks are 0..n-1,
\* each used once.
C3_ChunkIndicesContiguousUnique ==
    \A id \in pdfs :
        LET rows == ChunksOf(id)
        IN  /\ \A i \in 1..Len(rows) : rows[i].chunk_index \in 0..(Len(rows) - 1)
            /\ \A i, j \in 1..Len(rows) :
                  rows[i].chunk_index = rows[j].chunk_index => i = j

\* C26: when the embedding of the chunks fails and nothing else does, the
\* document is committed, and its chunk rows hold the chunks of the stored
\* text, each once and in order, with placeholder vectors.
C26_EmbeddingFailureKeepsChunks ==
    last_save.failed = "embedding" =>
        /\ last_save.result = "returned"
        /\ last_save.id \in pdfs
        /\ Len(ContentsOf(last_save.id)) = 1
        /\ LET chunks == split_text_into_chunks(ContentsOf(last_save.id)[1].text_content)
               rows == ChunksOf(last_save.id)
           IN  /\ Len(rows) = Len(chunks)
               /\ \A i \in 1..Len(rows) :
                     /\ rows[i].chunk_text = chunks[i]
                     /\ rows[i].embedding = PlaceholderEmbedding

\* the documents uploaded between deletes: one without text, one of two
\* chunks
DeleteTexts ==
    { <<>>,
      Flatten(<<<<Run("a", MAX_CHUNK_SIZE)>>, Break, <<Run("b", MIN_CHUNK_SIZE)>>>>) }

SaveBeforeDelete == \E t \in DeleteTexts, f \in Faults : save_pdf_to_db(t, f)

DeleteNext == SaveBeforeDelete \/ DeletePdf

\* uploads and deletes in any order, each call failing wherever it can
SpecDelete == Init /\ [][DeleteNext]_vars

\* C18: every content row and every chunk row names a stored PDF, and after
\* a delete_pdf(d) that succeeded no content row and no chunk row of d is
\* left.
C18_DeleteCascades ==
    /\ \A i \in 1..Len(pdf_contents) : pdf_contents[i].pdf_id \in pdfs
    /\ \A i \in 1..Len(pdf_chunks) : pdf_chunks[i].pdf_id \in pdfs
    /\ last_delete.result = "deleted" =>
          /\ last_delete.id \notin pdfs
          /\ ContentsOf(last_delete.id) = <<>>
          /\ ChunksOf(last_delete.id) = <<>>

C18_Witness ==
    /\ last_delete = [result |-> "deleted", id |-> 1]
    /\ pdfs = {2}
    /\ Len(pdf_contents) = 1 /\ Len(ContentsOf(2)) = 1
    /\ Len(pdf_chunks) = 2 /\ Len(ChunksOf(2)) = 2

(* ----------------------------------------------------------------------- *)
(* answer_question_with_ai                                                 *)
(* ----------------------------------------------------------------------- *)
\* str.lower()
Lower(s) == Canon([i \in 1..Len(s) |-> IF s[i].c = "A" THEN Run("a", s[i].n) ELSE s[i]])

RECURSIVE SplitWords(_, _, _)
\* str.split() from run i on, cur being the word read so far
SplitWords(s, i, cur) ==
    IF i > Len(s) THEN (IF cur = <<>> THEN <<>> ELSE <<cur>>)
    ELSE IF isspace(s[i].c)
         THEN (IF cur = <<>> THEN <<>> ELSE <<cur>>) \o SplitWords(s, i + 1, <<>>)
         ELSE SplitWords(s, i + 1, cur \o <<s[i]>>)

\* the stop words this alphabet spells: "a"
stop_words == { <<Run("a", 1)>> }

\* [word for word in question_lower.split() if word not in stop_words and len(word) > 2]
Keywords(question) ==
    SelectSeq(SplitWords(Lower(question), 1, <<>>),
              LAMBDA w : w \notin stop_words /\ StrLen(w) > 2)

\* p in t, for strings: the first run of p ends a run of t, its last run
\* starts one, the runs between are runs of t
Contains(t, p) ==
    \/ p = <<>>
    \/ \E i \in 1..(Len(t) - Len(p) + 1) :
          LET m == Len(p)
          IN  /\ t[i].c = p[1].c /\ t[i].n >= p[1].n
              /\ t[i + m - 1].c = p[m].c /\ t[i + m - 1].n >= p[m].n
              /\ \A k \in 2..(m - 1) : t[i + k - 1] = p[k]

\* any(keyword in chunk_text for keyword in keywords), chunk_text lowered
MatchesAnyKeyword(chunk_text, keywords) ==
    \E k \in 1..Len(keywords) : Contains(Lower(chunk_text), keywords[k])
\* the ids of a set in ascending order
RECURSIVE Ascending(_)
Ascending(S) ==
    IF S = {} THEN <<>>
    ELSE LET m == CHOOSE x \in S : \A y \in S : x <= y
         IN  <<m>> \o Ascending(S \ {m})

\* the chunks the question is matched against: those of the PDF asked
\* about, or all of them
ScopeChunks(pdf_id) == IF pdf_id # 0 THEN SelectSeq(pdf_chunks, LAMBDA r : r.pdf_id = pdf_id)
                       ELSE pdf_chunks

\* relevant_chunks: (chunk_text, pdf_id) of the chunks holding a keyword
RelevantChunks(pdf_id, keywords) ==
    LET hit == SelectSeq(ScopeChunks(pdf_id),
                         LAMBDA r : MatchesAnyKeyword(r.chunk_text, keywords))
    IN  [i \in 1..Len(hit) |-> [chunk_text |-> hit[i].chunk_text, pdf_id |-> hit[i].pdf_id]]

\* the PDFs whose content is loaded: the one asked about, or all that have a
\* content row with text
ScopePdfs(pdf_id) ==
    SelectSeq(IF pdf_id # 0 THEN <<pdf_id>> ELSE Ascending(pdfs),
              LAMBDA id : /\ SelectSeq(pdf_contents, LAMBDA r : r.pdf_id = id) # <<>>
                          /\ SelectSeq(pdf_contents, LAMBDA r : r.pdf_id = id)[1].text_content # <<>>)

ScopeContents(pdf_id) ==
    [i \in 1..Len(ScopePdfs(pdf_id)) |->
        SelectSeq(pdf_contents, LAMBDA r : r.pdf_id = ScopePdfs(pdf_id)[i])[1].text_content]

RECURSIVE InsertByKey(_, _)
\* x put into an ascending list, after the entries whose key is not greater
InsertByKey(sorted, x) ==
    IF sorted = <<>> THEN <<x>>
    ELSE IF x.key < Head(sorted).key THEN <<x>> \o sorted
         ELSE <<Head(sorted)>> \o InsertByKey(Tail(sorted), x)

RECURSIVE SortAsc(_)
\* the stable ascending sort of a list of [key, item]
SortAsc(l) ==
    IF l = <<>> THEN <<>>
    ELSE InsertByKey(SortAsc(SubSeq(l, 1, Len(l) - 1)), l[Len(l)])

Reverse(l) == [i \in 1..Len(l) |-> l[Len(l) + 1 - i]]

SortReverseTiesFlipped(l) == Reverse(SortAsc(l))

\* list.sort(key=..., reverse=True): the list is reversed, sorted and
\* reversed again, so entries of equal key keep their order
SortReverse(l) == Reverse(SortAsc(Reverse(l)))

\* sum(keyword in chunk[0].lower() for keyword in keywords): one for every
\* entry of the keyword list found in the chunk, a word the question repeats
\* counted each time
KeywordScore(chunk_text, keywords) ==
    Cardinality({k \in 1..Len(keywords) : Contains(Lower(chunk_text), keywords[k])})

\* relevant_chunks.sort(key=..., reverse=True)
RankRelevant(relevant_chunks, keywords) ==
    LET keyed == [i \in 1..Len(relevant_chunks) |->
                     [key |-> KeywordScore(relevant_chunks[i].chunk_text, keywords),
                      item |-> relevant_chunks[i]]]
    IN  [i \in 1..Len(keyed) |-> SortReverse(keyed)[i].item]

\* relevant_chunks[:8]
TopChunks(sorted_chunks) ==
    SubSeq(sorted_chunks, 1, Min(TOP_CHUNKS, Len(sorted_chunks)))

RECURSIVE WindowLoop(_, _, _, _)
\* for i in range(0, len(content), max_window_size // 2), from offset i on;
\* acc holds the pieces put into window_content and its length
WindowLoop(content, d, i, acc) ==
    IF i >= StrLen(content) THEN acc
    ELSE LET window == Slice(content, i, Min(i + MAX_WINDOW_SIZE, StrLen(content)))
             acc1 == IF StrLen(strip(window)) > WINDOW_MIN_CONTENT
                     THEN [pieces |-> Append(acc.pieces,
                                             [doc |-> d, from |-> i, len |-> StrLen(window)]),
                           total |-> acc.total + StrLen(window) + SEPARATOR_LEN]
                     ELSE acc
         IN  IF acc1.total > CONTEXT_BUDGET THEN acc1
             ELSE WindowLoop(content, d, i + (MAX_WINDOW_SIZE \div 2), acc1)

RECURSIVE SlidingLoop(_, _, _)
\* for content in pdf_contents, from the d-th on
SlidingLoop(contents, d, acc) ==
    IF d > Len(contents) THEN acc
    ELSE LET content == strip(contents[d])
         IN  SlidingLoop(contents, d + 1,
                 IF StrLen(content) <= MAX_WINDOW_SIZE
                 THEN [pieces |-> Append(acc.pieces,
                                         [doc |-> d, from |-> 0, len |-> StrLen(content)]),
                       total |-> acc.total + StrLen(content) + SEPARATOR_LEN]
                 ELSE WindowLoop(content, d, 0, acc))

\* window_content of the sliding-window approach: its pieces and its length
SlidingContext(contents) == SlidingLoop(contents, 1, [pieces |-> <<>>, total |-> 0])

\* the documents whose text is in the context of a stage
KeywordDocs(top_chunks) == {top_chunks[i].pdf_id : i \in 1..Len(top_chunks)}

WindowedDocs(contents, titles) == {titles[d] : d \in 1..Len(contents)}

SlidingDocs(contents, titles) ==
    {titles[SlidingContext(contents).pieces[p].doc] :
        p \in 1..Len(SlidingContext(contents).pieces)}

\* the seconds a call of the generator that is answered can take
CallSeconds == {15, 50}

\* what one call of the generator can come to: an answer, an answer that one
\* of the not-found phrases classifies as negative, a failure of the request,
\* or the configuration error of settings that are missing or blank
LlmReplies ==
    IF llm_env # "configured" THEN {"config_error"} ELSE {"answer", "not_found", "error"}

\* a call with the seconds it takes: the configuration error is raised before
\* any request is sent, a request fails at the latest when its own time-out
\* of LLM_TIMEOUT_S seconds ends
LlmCalls ==
    IF llm_env # "configured" THEN {[reply |-> "config_error", secs |-> 0]}
    ELSE {[reply |-> r, secs |-> d] : r \in LlmReplies, d \in CallSeconds}
            \cup {[reply |-> "error", secs |-> LLM_TIMEOUT_S]}

\* the outcome of the last reply of the stages
StageResult(reply) ==
    CASE reply = "answer" -> "answer"
      [] reply = "not_found" -> "not_found_answer"
      [] reply = "config_error" -> "config_error"
      [] OTHER -> "error"

\* the dictionary of a successful resolution
Success(a, answer) ==
    [success |-> TRUE, message |-> "none", answer |-> answer, sources |-> a.pdf_titles]

\* the dictionaries of the general-knowledge and follow-up answers
Conversational(answer) ==
    [success |-> TRUE, message |-> "none", answer |-> answer, sources |-> <<>>]

\* the dictionary of a failure, message naming its text
Failure(message) ==
    [success |-> FALSE, message |-> message, answer |-> "none", sources |-> <<>>]

\* the dictionary of the handler of the stages' exceptions
StageFailure(reply) ==
    Failure(IF reply = "config_error" THEN "llm_not_available" ELSE "error_generating")

\* /ask-ai and /follow-up run the call under asyncio.wait_for, /ask does not
HasDeadline(route) == route \in {"ask_ai", "follow_up"}

\* the status the route answers with: /ask falls back to the standard QA,
\* /ask-ai and /follow-up look for "no content" or "no pdf content" in the
\* message, /ask-ai also for "not available"
StatusCode(route, returned) ==
    IF returned.success \/ route = "ask" THEN 200
    ELSE IF returned.message = "no_pdf_content" THEN 404
    ELSE IF route = "ask_ai" /\ returned.message = "llm_not_available" THEN 503
    ELSE 500

\* the call returns
Return(a, result, returned) ==
    [a EXCEPT !.result = result, !.returned = returned,
              !.status = StatusCode(a.route, returned)]

\* the awaited call c would be answered after the deadline of the route
CutAtDeadline(a, c) == HasDeadline(a.route) /\ a.elapsed + c.secs > ASK_TIMEOUT_S

\* asyncio.TimeoutError in the route: the call is abandoned, status 504
TimedOut(a) ==
    [a EXCEPT !.calls = @ + 1, !.elapsed = ASK_TIMEOUT_S, !.cut = TRUE,
              !.result = "timeout", !.returned = Failure("timed_out"), !.status = 504]

\* the call c is answered
Answered(a, c) == [a EXCEPT !.calls = @ + 1, !.elapsed = @ + c.secs]

NoContentReturnNone(pdf_id, general) == "none"

\* the returns before the stages when the scope holds no content ("none":
\* there is content): the PDF asked about is missing or has no text; no PDF
\* is stored, or none with text, and a general-knowledge handler answers the
\* question (general) or none does
NoContentReturn(pdf_id, general) ==
    IF pdf_id # 0
    THEN IF pdf_id \notin pdfs THEN "pdf_not_found"
         ELSE IF ScopeContents(pdf_id) = <<>> THEN "pdf_no_content" ELSE "none"
    ELSE IF pdfs = {} THEN (IF general THEN "general_answer" ELSE "no_pdfs")
         ELSE IF ScopeContents(pdf_id) = <<>>
              THEN (IF general THEN "general_answer" ELSE "no_pdf_content")
              ELSE "none"

\* answer_question_with_ai, called by a route, up to its first call of the
\* generator; simplify: the question holds a simplification phrase.  Every
\* call starts from the same locals, so a behaviour follows one call.
AskStart(route, question, pdf_id, general, simplify) ==
    /\ ask_pc = "idle"
    /\ LET a0 == [NoAsk EXCEPT !.question = question, !.pdf_id = pdf_id,
                               !.route = route, !.simplify = simplify]
           a1 == [a0 EXCEPT !.keywords = Keywords(question)]
           a2 == [a1 EXCEPT !.relevant_chunks = RelevantChunks(pdf_id, a1.keywords),
                            !.pdf_contents = ScopeContents(pdf_id),
                            !.pdf_titles = ScopePdfs(pdf_id)]
           early == NoContentReturn(pdf_id, general)
       IN  IF route = "follow_up"
           THEN ask_pc' = "followup" /\ ask' = a0
           ELSE IF llm_env = "missing"
           THEN ask_pc' = "done"
                /\ ask' = Return(a0, "config_error", Failure("llm_not_available"))
           ELSE IF early = "general_answer"
           THEN ask_pc' = "done"
                /\ ask' = Return(a1, "general_answer", Conversational("general"))
           ELSE IF early # "none"
           THEN ask_pc' = "done"
                /\ ask' = Return(a1, IF early \in {"no_pdfs", "no_pdf_content"}
                                     THEN "no_content" ELSE early,
                                 Failure(early))
           ELSE IF a2.relevant_chunks # <<>>
                THEN ask_pc' = "keyword"
                     /\ ask' = [a2 EXCEPT
                           !.stages = <<"KEYWORD_MATCH">>,
                           !.top_chunks =
                               TopChunks(RankRelevant(a2.relevant_chunks, a2.keywords)),
                           !.context_docs =
                               KeywordDocs(TopChunks(RankRelevant(a2.relevant_chunks,
                                                                  a2.keywords)))]
                ELSE ask_pc' = "windowed"
                     /\ ask' = [a2 EXCEPT
                           !.stages = <<"WINDOWED_SAMPLE">>,
                           !.context_docs = WindowedDocs(a2.pdf_contents, a2.pdf_titles)]
    /\ UNCHANGED llm_env
    /\ UNCHANGED textVars /\ UNCHANGED dbVars /\ UNCHANGED cacheVars

\* generate_followup_answer returns, with the improved answer or, when the
\* call raised, with its apology: it raises nothing
FollowupReply(c) ==
    /\ ask_pc = "followup"
    /\ ask_pc' = "done"
    /\ ask' = IF CutAtDeadline(ask, c) THEN TimedOut(ask)
              ELSE Return(Answered(ask, c), "followup_answer",
                          Conversational(IF c.reply \in {"answer", "not_found"}
                                         THEN "followup" ELSE "apology"))
    /\ UNCHANGED llm_env
    /\ UNCHANGED textVars /\ UNCHANGED dbVars /\ UNCHANGED cacheVars

FinishOrRetry(a, reply) ==
    IF reply = "not_found"
    THEN ask_pc' = "keyword" /\ ask' = [a EXCEPT !.stages = Append(@, "KEYWORD_MATCH")]
    ELSE ask_pc' = "done"
         /\ ask' = Return([a EXCEPT !.answer_text = reply], StageResult(reply),
                          Success(a, reply))

\* the answer of the stages is cleaned and returned, or first handed to
\* simplify_complex_answer
Finish(a, reply) ==
    IF a.simplify
    THEN ask_pc' = "simplify" /\ ask' = [a EXCEPT !.answer_text = reply]
    ELSE ask_pc' = "done"
         /\ ask' = Return([a EXCEPT !.answer_text = reply], StageResult(reply),
                          Success(a, reply))

\* an exception of the stages reaches the outer handler
Fail(a, reply) ==
    /\ ask_pc' = "done"
    /\ ask' = Return(a, StageResult(reply), StageFailure(reply))

NeedsFullContentAlways(reply) == TRUE

\* the keyword stage is left for the full-content approach: its answer holds
\* a not-found phrase, or the call raised (the handler catches every Exception)
NeedsFullContent(reply) == reply # "answer"

\* the windowed-sample answer holds a not-found phrase
NeedsSlidingWindow(reply) == reply = "not_found"

\* the reply of the generator to the prompt over the relevant chunks
KeywordReply(c) ==
    /\ ask_pc = "keyword"
    /\ IF CutAtDeadline(ask, c)
       THEN ask_pc' = "done" /\ ask' = TimedOut(ask)
       ELSE LET a == [Answered(ask, c) EXCEPT !.keyword_reply = c.reply]
            IN  IF NeedsFullContent(c.reply)
                THEN /\ ask_pc' = "windowed"
                     /\ ask' = [a EXCEPT
                           !.stages = Append(@, "WINDOWED_SAMPLE"),
                           !.context_docs = WindowedDocs(a.pdf_contents, a.pdf_titles)]
                ELSE Finish(a, c.reply)
    /\ UNCHANGED llm_env
    /\ UNCHANGED textVars /\ UNCHANGED dbVars /\ UNCHANGED cacheVars

\* the reply to the prompt over the sampled full contents: inside the keyword
\* stage's handler a negative answer leads to the sliding window; with no
\* relevant chunk the answer is final
WindowedReply(c) ==
    /\ ask_pc = "windowed"
    /\ IF CutAtDeadline(ask, c)
       THEN ask_pc' = "done" /\ ask' = TimedOut(ask)
       ELSE LET a == [Answered(ask, c) EXCEPT !.windowed_reply = c.reply]
            IN  IF c.reply \notin {"answer", "not_found"}
                THEN Fail(a, c.reply)
                ELSE IF a.stages[1] = "KEYWORD_MATCH" /\ NeedsSlidingWindow(c.reply)
                THEN /\ ask_pc' = "sliding"
                     /\ ask' = [a EXCEPT
                           !.stages = Append(@, "SLIDING_WINDOW"),
                           !.context_docs = SlidingDocs(a.pdf_contents, a.pdf_titles),
                           !.context_len = SlidingContext(a.pdf_contents).total]
                ELSE Finish(a, c.reply)
    /\ UNCHANGED llm_env
    /\ UNCHANGED textVars /\ UNCHANGED dbVars /\ UNCHANGED cacheVars

\* the reply to the prompt over the sliding windows
SlidingReply(c) ==
    /\ ask_pc = "sliding"
    /\ IF CutAtDeadline(ask, c)
       THEN ask_pc' = "done" /\ ask' = TimedOut(ask)
       ELSE LET a == [Answered(ask, c) EXCEPT !.sliding_reply = c.reply]
            IN  IF c.reply \notin {"answer", "not_found"}
                THEN Fail(a, c.reply)
                ELSE Finish(a, c.reply)
    /\ UNCHANGED llm_env
    /\ UNCHANGED textVars /\ UNCHANGED dbVars /\ UNCHANGED cacheVars

\* simplify_complex_answer: a synchronous request inside the coroutine, which
\* no deadline of the route interrupts; a request that fails leaves the
\* answer as it was
SimplifyReply(c) ==
    /\ ask_pc = "simplify"
    /\ ask_pc' = "done"
    /\ ask' = Return(Answered(ask, c), StageResult(ask.answer_text),
                     Success(ask, IF c.reply \in {"answer", "not_found"}
                                  THEN "simplified" ELSE ask.answer_text))
    /\ UNCHANGED llm_env
    /\ UNCHANGED textVars /\ UNCHANGED dbVars /\ UNCHANGED cacheVars

(* ----------------------------------------------------------------------- *)
(* Questions over an ingested database                                     *)
(* ----------------------------------------------------------------------- *)
NoFault ==
    [early |-> "none", split |-> FALSE, emb |-> -1, ph |-> -1, fb |-> FALSE,
     commit |-> FALSE, verify |-> FALSE]

\* a text of five paragraphs of MAX_CHUNK_SIZE characters, each its own chunk
FiveChunkText ==
    Flatten(<<<<Run("a", MAX_CHUNK_SIZE)>>, Break,
              <<Run("a", 1), Run("b", MAX_CHUNK_SIZE - 1)>>, Break,
              <<Run("a", MAX_CHUNK_SIZE)>>, Break,
              <<Run("a", 1), Run("b", MAX_CHUNK_SIZE - 1)>>, Break,
              <<Run("a", MAX_CHUNK_SIZE)>>>>)

\* the texts of the PDFs the questions are asked over
AskTexts ==
    { <<Run("b", 1)>>,
      <<Run("A", 3), Run("sp", 1), Run("b", 1)>>,
      Flatten(<<<<Run("a", MAX_CHUNK_SIZE)>>, Break, <<Run("b", 3)>>>>),
      FiveChunkText }

\* the questions: "aaa", "b", "a AAA bbb", "aaa aaa bbb abb"
Questions ==
    { <<Run("a", 3)>>,
      <<Run("b", 1)>>,
      <<Run("a", 1), Run("sp", 1), Run("A", 3), Run("sp", 1), Run("b", 3)>>,
      <<Run("a", 3), Run("sp", 1), Run("a", 3), Run("sp", 1), Run("b", 3),
        Run("sp", 1), Run("a", 1), Run("b", 2)>> }

RECURSIVE ChunksAfter(_, _)
\* table pdf_chunks after the texts from the i-th on are saved, none failing
ChunksAfter(texts, i) ==
    IF i > Len(texts) THEN <<>>
    ELSE SessionChunks(i, StoredText(texts[i]), NoFault).rows \o ChunksAfter(texts, i + 1)

AskInit ==
    /\ TextIdle
    /\ \E texts \in UNION {[1..n -> AskTexts] : n \in 0..MaxPdfs} :
          /\ pdfs = 1..Len(texts)
          /\ pdf_contents =
                [i \in 1..Len(texts) |-> [pdf_id |-> i, text_content |-> StoredText(texts[i])]]
          /\ pdf_chunks = ChunksAfter(texts, 1)
          /\ last_save = IF texts = <<>> THEN NoSave
                         ELSE [result |-> "returned", id |-> Len(texts),
                               failed |-> "none"]
    /\ last_delete = NoDelete
    /\ llm_env \in {"configured", "blank", "missing"}
    /\ ask_pc = "idle" /\ ask = NoAsk
    /\ CacheIdle

\* the routes that call answer_question_with_ai
Routes == {"ask", "ask_ai", "follow_up"}

AskNext ==
    \/ \E r \in Routes, q \in Questions, id \in 0..(MaxPdfs + 1),
          g \in BOOLEAN, s \in BOOLEAN : AskStart(r, q, id, g, s)
    \/ \E c \in LlmCalls : FollowupReply(c)
    \/ \E c \in LlmCalls : KeywordReply(c)
    \/ \E c \in LlmCalls : WindowedReply(c)
    \/ \E c \in LlmCalls : SlidingReply(c)
    \/ \E c \in LlmCalls : SimplifyReply(c)

\* questions, one at a time, over a database of saved PDFs
SpecAsk == AskInit /\ [][AskNext]_vars

(* ----------------------------------------------------------------------- *)
(* The similarity ranking of answer_question and search_pdfs               *)
(* ----------------------------------------------------------------------- *)
\* the cosine scores, in hundredths
ScoreLevels == {10, SEARCH_THRESHOLD, 50}

\* the (chunk, score) pairs of the chunks, in the order of the query; a chunk
\* is named by its place in that order
ScoredInputs ==
    UNION {{[i \in 1..n |-> [chunk |-> i, score |-> f[i]]] : f \in [1..n -> ScoreLevels]} :
              n \in 0..MaxScored}

\* chunk_scores.sort(key=lambda x: x[1], reverse=True)
SortByScore(pairs) ==
    LET keyed == [i \in 1..Len(pairs) |-> [key |-> pairs[i].score, item |-> pairs[i]]]
    IN  [i \in 1..Len(keyed) |-> SortReverse(keyed)[i].item]

\* answer_question: the pairs sorted and the top TOP_K_CHUNKS of them
RankForAnswer ==
    /\ ranked.by = "none"
    /\ ranked' = [NoRanking EXCEPT
                     !.by = "answer_question",
                     !.sorted = SortByScore(chunk_scores),
                     !.top = SubSeq(SortByScore(chunk_scores), 1,
                                    Min(TOP_K_CHUNKS, Len(chunk_scores)))]
    /\ UNCHANGED <<text, tpc, cleaned, recleaned, chunks_out, windows, chunk_scores>>
    /\ UNCHANGED dbVars /\ UNCHANGED askVars /\ UNCHANGED cacheVars

\* search_pdfs: the pairs over the relevance threshold, sorted, and the top
\* SEARCH_TOP of them
RankForSearch ==
    /\ ranked.by = "none"
    /\ LET results == SelectSeq(chunk_scores, LAMBDA r : r.score > SEARCH_THRESHOLD)
       IN  ranked' = [NoRanking EXCEPT
                         !.by = "search_pdfs",
                         !.sorted = SortByScore(results),
                         !.top = SubSeq(SortByScore(results), 1,
                                        Min(SEARCH_TOP, Len(results)))]
    /\ UNCHANGED <<text, tpc, cleaned, recleaned, chunks_out, windows, chunk_scores>>
    /\ UNCHANGED dbVars /\ UNCHANGED askVars /\ UNCHANGED cacheVars

RankInit ==
    /\ text = <<>> /\ tpc = "idle" /\ cleaned = <<>> /\ recleaned = <<>>
    /\ chunks_out = <<>> /\ windows = <<>>
    /\ chunk_scores \in ScoredInputs /\ ranked = NoRanking
    /\ DbEmpty /\ AskIdle /\ CacheIdle

RankNext == RankForAnswer \/ RankForSearch

\* the ranking applied to every list of scored chunks
SpecRank == RankInit /\ [][RankNext]_vars

\* the pairs the ranking orders
RankedInput ==
    IF ranked.by = "search_pdfs"
    THEN SelectSeq(chunk_scores, LAMBDA r : r.score > SEARCH_THRESHOLD)
    ELSE chunk_scores

\* C16: the ranked output holds the ranked pairs once each, in descending
\* order of score, two pairs of equal score in their order in the input.
C16_RankingDescendingAndStable ==
    ranked.by # "none" =>
        /\ Len(ranked.sorted) = Len(RankedInput)
        /\ \A i \in 1..Len(RankedInput) :
              \E p \in 1..Len(ranked.sorted) : ranked.sorted[p] = RankedInput[i]
        /\ \A p, q \in 1..Len(ranked.sorted) :
              p < q =>
                 /\ ranked.sorted[p].score >= ranked.sorted[q].score
                 /\ ranked.sorted[p].score = ranked.sorted[q].score
                        => ranked.sorted[p].chunk < ranked.sorted[q].chunk
        /\ ranked.top = SubSeq(ranked.sorted, 1, Len(ranked.top))

C16_Witness ==
    /\ ranked.by = "answer_question"
    /\ Len(ranked.sorted) = MaxScored
    /\ ranked.sorted[1].chunk = 2 /\ ranked.sorted[2].chunk = 4
    /\ ranked.sorted[1].score = ranked.sorted[2].score
    /\ ranked.sorted[3].score = ranked.sorted[4].score
    /\ Len(ranked.top) = TOP_K_CHUNKS

(* ----------------------------------------------------------------------- *)
(* The similarity pass over the stored chunks                              *)
(* ----------------------------------------------------------------------- *)
\* the dimension of the question's vector: EMBEDDING_DIM as it is configured
\* when the question is asked, which need not be the one the chunks were
\* stored under
QueryDims == {EMBEDDING_DIM, EMBEDDING_DIM \div 2}

\* np.linalg.norm(v) == 0: the placeholder is a vector of zeros
ZeroNorm(v) == v.kind = "placeholder"

\* np.dot(a, b) raises on vectors of different lengths
DotRaises(a, b) == ~ZeroNorm(a) /\ ~ZeroNorm(b) /\ a.dim # b.dim

\* cosine_similarity(a, b), in hundredths; s: the cosine of the two vectors
\* when it is computed
cosine_similarity(a, b, s) == IF ZeroNorm(a) \/ ZeroNorm(b) THEN 0 ELSE s

\* the loop over the chunks: a chunk whose score raises is logged and left
\* out; level[d]: the cosine of the question and a chunk of PDF d
SimilarityPass(query_dim, level) ==
    LET question_embedding == [dim |-> query_dim, kind |-> "simple"]
        scored == [i \in 1..Len(pdf_chunks) |->
                      [chunk |-> i, pdf_id |-> pdf_chunks[i].pdf_id,
                       raised |-> DotRaises(question_embedding, pdf_chunks[i].embedding),
                       score |-> cosine_similarity(question_embedding,
                                                   pdf_chunks[i].embedding,
                                                   level[pdf_chunks[i].pdf_id])]]
        kept == SelectSeq(scored, LAMBDA r : ~r.raised)
    IN  [i \in 1..Len(kept) |->
            [chunk |-> kept[i].chunk, pdf_id |-> kept[i].pdf_id, score |-> kept[i].score]]

\* /ask when the answer of answer_question_with_ai is a failure or the call
\* raises: answer_question(db, question) ranks the chunks of the database;
\* pdf_id is the PDF the request names, 0 for none
AskStandardQA(pdf_id, query_dim, level) ==
    /\ ranked.by = "none"
    /\ pdf_chunks # <<>>
    /\ chunk_scores' = SimilarityPass(query_dim, level)
    /\ ranked' = [NoRanking EXCEPT
                     !.by = "answer_question", !.pdf_id = pdf_id,
                     !.query_dim = query_dim,
                     !.sorted = SortByScore(chunk_scores'),
                     !.top = SubSeq(SortByScore(chunk_scores'), 1,
                                    Min(TOP_K_CHUNKS, Len(chunk_scores')))]
    /\ UNCHANGED <<text, tpc, cleaned, recleaned, chunks_out, windows>>
    /\ UNCHANGED dbVars /\ UNCHANGED askVars /\ UNCHANGED cacheVars

\* /search: the chunks scored over the threshold, ranked
SearchPdfs(query_dim, level) ==
    /\ ranked.by = "none"
    /\ pdf_chunks # <<>>
    /\ chunk_scores' = SimilarityPass(query_dim, level)
    /\ LET results == SelectSeq(chunk_scores', LAMBDA r : r.score > SEARCH_THRESHOLD)
       IN  ranked' = [NoRanking EXCEPT
                         !.by = "search_pdfs", !.query_dim = query_dim,
                         !.sorted = SortByScore(results),
                         !.top = SubSeq(SortByScore(results), 1,
                                        Min(SEARCH_TOP, Len(results)))]
    /\ UNCHANGED <<text, tpc, cleaned, recleaned, chunks_out, windows>>
    /\ UNCHANGED dbVars /\ UNCHANGED askVars /\ UNCHANGED cacheVars

\* uploads while no question has been asked
SaveForQA == ranked.by = "none" /\ SavePdf

QANext ==
    \/ SaveForQA
    \/ \E pdf_id \in 0..MaxPdfs, d \in QueryDims, level \in [1..MaxPdfs -> ScoreLevels] :
          AskStandardQA(pdf_id, d, level)
    \/ \E d \in QueryDims, level \in [1..MaxPdfs -> ScoreLevels] : SearchPdfs(d, level)

\* uploads, each failing wherever it can, then a question or a search
SpecQA == Init /\ [][QANext]_vars

\* C27: a stored chunk whose vector has another dimension than the question's
\* is not left out of the ranking: the pass fails, or the chunk is scored (a
\* vector of zeros, padded, has the score 0).
C27_MixedDimensionNotIgnored ==
    ranked.by \in {"answer_question", "search_pdfs"} =>
        \A i \in 1..Len(pdf_chunks) :
            pdf_chunks[i].embedding.dim # ranked.query_dim =>
                \E p \in 1..Len(chunk_scores) :
                    /\ chunk_scores[p].chunk = i
                    /\ ZeroNorm(pdf_chunks[i].embedding) => chunk_scores[p].score = 0

\* C28: the ranking made for a question about one PDF holds chunks of that
\* PDF only.
C28_ScopedQuestionUsesOnlyItsPdf ==
    (ranked.by = "answer_question" /\ ranked.pdf_id # 0) =>
        \A p \in 1..Len(ranked.top) : ranked.top[p].pdf_id = ranked.pdf_id

(* ----------------------------------------------------------------------- *)
(* The response cache of /ask-ai                                           *)
(* ----------------------------------------------------------------------- *)
\* a cached response is served while it is younger than this
SERVE_TTL == 300

\* an insert keeps the entries younger than this
RETENTION_TTL == 600

\* the clock advances by the serving time
ClockStep == SERVE_TTL

\* pdf_id of the request body: null, a number, or a string
NoPdfId == [kind |-> "null", text |-> <<>>]

IntPdfId(n) == [kind |-> "int", text |-> <<Run("1", n)>>]

StrPdfId(t) == [kind |-> "str", text |-> t]

\* int(pdf_id), -1 for the ValueError of a text that is no number; numbers
\* are written in unary, n as n digits "1"
ParseInt(pdf_id) ==
    IF Len(pdf_id.text) = 1 /\ pdf_id.text[1].c = "1" THEN pdf_id.text[1].n ELSE -1

Colon == <<Run(":", 1)>>

\* f"{question}:{pdf_id if pdf_id is not None else 'all'}"
cache_key(question, pdf_id) ==
    Concat(Concat(question, Colon),
           IF pdf_id.kind = "null" THEN <<Run("a", 1), Run("l", 2)>> ELSE pdf_id.text)

\* the stand-in for the technology keywords
tech_keywords == { <<Run("a", 1), Run("b", 1)>> }

is_tech_question(question) == \E k \in tech_keywords : Contains(Lower(question), k)

\* the bodies of the requests: "b" over all documents, over PDF 1 and with
\* the pdf_id "1:all"; "b:1" over all documents; the technology question "ab"
\* over PDF 1
CacheInputs ==
    { [question |-> <<Run("b", 1)>>, pdf_id |-> NoPdfId],
      [question |-> <<Run("b", 1)>>, pdf_id |-> IntPdfId(1)],
      [question |-> <<Run("b", 1)>>,
       pdf_id |-> StrPdfId(<<Run("1", 1), Run(":", 1), Run("a", 1), Run("l", 2)>>)],
      [question |-> <<Run("b", 1), Run(":", 1), Run("1", 1)>>, pdf_id |-> NoPdfId],
      [question |-> <<Run("a", 1), Run("b", 1)>>, pdf_id |-> IntPdfId(1)] }

NoResponse == [success |-> FALSE, message |-> "none", question |-> <<>>, scope |-> 0, docs |-> {}]

\* the dictionary of a failure
ErrorResponse(message) == [NoResponse EXCEPT !.message = message]

\* the dictionary of an answer to question over the documents docs; scope is
\* the PDF asked about, 0 for all
AnswerData(question, scope, docs) ==
    [success |-> TRUE, message |-> "none", question |-> question, scope |-> scope,
     docs |-> docs]

NewRequest(question, pdf_id) ==
    [pc |-> "check_wait", question |-> question, pdf_id |-> pdf_id,
     cache_key |-> cache_key(question, pdf_id),
     scope |-> 0, docs |-> {}, answer_data |-> NoResponse,
     cleaned_responses |-> {}, from_cache |-> FALSE, cached_age |-> 0,
     deleted_before |-> IF last_delete.result = "deleted" THEN {last_delete.id} ELSE {},
     status |-> 0, response |-> NoResponse]

\* a request arrives: the body is parsed and the key made
Receive(question, pdf_id) ==
    /\ Len(requests) < MaxRequests
    /\ requests' = Append(requests, NewRequest(question, pdf_id))
    /\ UNCHANGED <<now, recent_responses, response_lock>>
    /\ UNCHANGED textVars /\ UNCHANGED dbVars /\ UNCHANGED askVars

LockFreeAlways(lock) == TRUE

\* response_lock can be taken
LockFree(lock) == lock = 0

\* async with response_lock, entered for the look-up and for the insert.  The
\* steps of a section are taken one at a time, the lock keeping the other
\* requests out.
Acquire(r) ==
    /\ requests[r].pc \in {"check_wait", "insert_wait"}
    /\ LockFree(response_lock)
    /\ response_lock' = r
    /\ requests' = [requests EXCEPT ![r].pc =
                       IF @ = "check_wait" THEN "check" ELSE "insert"]
    /\ UNCHANGED <<now, recent_responses>>
    /\ UNCHANGED textVars /\ UNCHANGED dbVars /\ UNCHANGED askVars

\* the entries stored under a key
Cached(key) == {e \in recent_responses : e.key = key}

\* the look-up: an entry of the key younger than SERVE_TTL is returned
CheckCache(r) ==
    /\ requests[r].pc = "check"
    /\ response_lock' = 0
    /\ IF \E e \in Cached(requests[r].cache_key) : now - e.timestamp < SERVE_TTL
       THEN LET e == CHOOSE e \in Cached(requests[r].cache_key) : TRUE
            IN  requests' = [requests EXCEPT
                    ![r].pc = "done", ![r].status = 200, ![r].from_cache = TRUE,
                    ![r].cached_age = now - e.timestamp,
                    ![r].response = e.response]
       ELSE requests' = [requests EXCEPT ![r].pc = "validate"]
    /\ UNCHANGED <<now, recent_responses>>
    /\ UNCHANGED textVars /\ UNCHANGED dbVars /\ UNCHANGED askVars

Finished(req, status, response) ==
    [req EXCEPT !.pc = "done", !.status = status, !.response = response]

\* the checks of the route before the question is answered
Validate(r) ==
    LET req == requests[r]
        id == IF req.pdf_id.kind = "null" THEN 0 ELSE ParseInt(req.pdf_id)
        tech == is_tech_question(req.question)
    IN  /\ req.pc = "validate"
        /\ requests' = [requests EXCEPT ![r] =
              IF id = -1 THEN Finished(req, 400, ErrorResponse("invalid_pdf_id"))
              ELSE IF id # 0 /\ id \notin pdfs /\ ~tech
              THEN Finished(req, 404, ErrorResponse("pdf_not_found"))
              ELSE IF id # 0 /\ id \in pdfs /\ ContentsOf(id) = <<>> /\ ~tech
              THEN Finished(req, 400, ErrorResponse("pdf_no_content"))
              ELSE IF id = 0 /\ ~tech /\ pdfs = {}
              THEN Finished(req, 404, ErrorResponse("no_pdfs"))
              ELSE [req EXCEPT !.pc = "answering", !.scope = id]]
        /\ UNCHANGED <<now, recent_responses, response_lock>>
        /\ UNCHANGED textVars /\ UNCHANGED dbVars /\ UNCHANGED askVars

\* answer_question_with_ai reads the documents of the scope
Load(r) ==
    LET req == requests[r]
        early == NoContentReturn(req.scope, is_tech_question(req.question))
    IN  /\ req.pc = "answering"
        /\ requests' = [requests EXCEPT ![r] =
              IF early = "general_answer"
              THEN [req EXCEPT !.pc = "insert_wait",
                               !.answer_data = AnswerData(req.question, req.scope, {})]
              ELSE IF early # "none"
              THEN Finished(req, StatusCode("ask_ai", Failure(early)), ErrorResponse(early))
              ELSE [req EXCEPT !.pc = "generating",
                               !.docs = IF req.scope = 0 THEN pdfs ELSE {req.scope}]]
        /\ UNCHANGED <<now, recent_responses, response_lock>>
        /\ UNCHANGED textVars /\ UNCHANGED dbVars /\ UNCHANGED askVars

\* what the staged calls of the generator come to
GenerateOutcomes == {"answer", "failure", "timeout"}

Generate(r, outcome) ==
    LET req == requests[r]
    IN  /\ req.pc = "generating"
        /\ requests' = [requests EXCEPT ![r] =
              IF outcome = "answer"
              THEN [req EXCEPT !.pc = "insert_wait",
                               !.answer_data = AnswerData(req.question, req.scope, req.docs)]
              ELSE IF outcome = "timeout"
              THEN Finished(req, 504, ErrorResponse("timed_out"))
              ELSE Finished(req, 500, ErrorResponse("error_generating"))]
        /\ UNCHANGED <<now, recent_responses, response_lock>>
        /\ UNCHANGED textVars /\ UNCHANGED dbVars /\ UNCHANGED askVars

\* recent_responses[cache_key] = {'response': ..., 'timestamp': time.time()}
Insert(r) ==
    /\ requests[r].pc = "insert"
    /\ recent_responses' =
          (recent_responses \ Cached(requests[r].cache_key))
             \cup {[key |-> requests[r].cache_key,
                    response |-> requests[r].answer_data, timestamp |-> now]}
    /\ requests' = [requests EXCEPT ![r].pc = "prune"]
    /\ UNCHANGED <<now, response_lock>>
    /\ UNCHANGED textVars /\ UNCHANGED dbVars /\ UNCHANGED askVars

\* the loop that copies the entries younger than RETENTION_TTL
Prune(r) ==
    /\ requests[r].pc = "prune"
    /\ requests' = [requests EXCEPT
          ![r].pc = "assign",
          ![r].cleaned_responses =
              {e \in recent_responses : now - e.timestamp < RETENTION_TTL}]
    /\ UNCHANGED <<now, recent_responses, response_lock>>
    /\ UNCHANGED textVars /\ UNCHANGED dbVars /\ UNCHANGED askVars

\* recent_responses = cleaned_responses, the lock is left, the answer returned
Assign(r) ==
    /\ requests[r].pc = "assign"
    /\ recent_responses' = requests[r].cleaned_responses
    /\ response_lock' = 0
    /\ requests' = [requests EXCEPT ![r] =
                       Finished(@, 200, requests[r].answer_data)]
    /\ UNCHANGED now
    /\ UNCHANGED textVars /\ UNCHANGED dbVars /\ UNCHANGED askVars

\* time passes, between the critical sections
Tick ==
    /\ response_lock = 0
    /\ now < MaxTicks * ClockStep
    /\ now' = now + ClockStep
    /\ UNCHANGED <<recent_responses, response_lock, requests>>
    /\ UNCHANGED textVars /\ UNCHANGED dbVars /\ UNCHANGED askVars

\* a stored PDF is deleted
DeleteStored == \E id \in pdfs, f \in DeleteFaults : delete_pdf(id, f)

\* one PDF, with the text "b", is stored
CacheInit ==
    /\ TextIdle
    /\ pdfs = {1}
    /\ pdf_contents = <<[pdf_id |-> 1, text_content |-> <<Run("b", 1)>>]>>
    /\ pdf_chunks = ChunksAfter(<< <<Run("b", 1)>> >>, 1)
    /\ last_save = [result |-> "returned", id |-> 1, failed |-> "none"]
    /\ last_delete = NoDelete
    /\ AskIdle /\ CacheIdle

CacheNext ==
    \/ \E b \in CacheInputs : Receive(b.question, b.pdf_id)
    \/ \E r \in 1..Len(requests) : Acquire(r)
    \/ \E r \in 1..Len(requests) : CheckCache(r)
    \/ \E r \in 1..Len(requests) : Validate(r)
    \/ \E r \in 1..Len(requests) : Load(r)
    \/ \E r \in 1..Len(requests), o \in GenerateOutcomes : Generate(r, o)
    \/ \E r \in 1..Len(requests) : Insert(r)
    \/ \E r \in 1..Len(requests) : Prune(r)
    \/ \E r \in 1..Len(requests) : Assign(r)
    \/ Tick

\* /ask-ai requests and the clock, in every interleaving
SpecCache == CacheInit /\ [][CacheNext]_vars

CacheDeleteNext == CacheNext \/ DeleteStored

\* the same with deletes of the stored PDF
SpecCacheDelete == CacheInit /\ [][CacheDeleteNext]_vars

(* ----------------------------------------------------------------------- *)
(* Properties of the question resolution (checked under SpecAsk)           *)
(* ----------------------------------------------------------------------- *)
Entered(stage) == \E i \in 1..Len(ask.stages) : ask.stages[i] = stage

\* the stages run in the order KEYWORD_MATCH, WINDOWED_SAMPLE, SLIDING_WINDOW
StagesInOrder ==
    ask.stages \in { <<>>,
                     <<"KEYWORD_MATCH">>,
                     <<"KEYWORD_MATCH", "WINDOWED_SAMPLE">>,
                     <<"KEYWORD_MATCH", "WINDOWED_SAMPLE", "SLIDING_WINDOW">>,
                     <<"WINDOWED_SAMPLE">>,
                     <<"WINDOWED_SAMPLE", "SLIDING_WINDOW">> }

\* C10 as stated: the stages run in order, the windowed sample only after a
\* keyword-stage answer classified not-found or when no chunk matched, the
\* sliding window only after a windowed-sample answer classified not-found.
C10_StagesOnlyAfterNotFound ==
    /\ StagesInOrder
    /\ Entered("WINDOWED_SAMPLE") =>
          \/ ask.relevant_chunks = <<>>
          \/ ask.keyword_reply = "not_found"
    /\ Entered("SLIDING_WINDOW") => ask.windowed_reply = "not_found"

\* C10 amended: the stages run in order; the windowed sample is entered only
\* when no chunk matched a keyword, or after the keyword stage whose answer
\* was classified not-found or whose generator call raised; the sliding
\* window only after a windowed-sample answer classified not-found.
C10_StagesOnlyAfterNotFoundOrFailure ==
    /\ StagesInOrder
    /\ Entered("WINDOWED_SAMPLE") =>
          \/ ask.relevant_chunks = <<>> /\ ask.keyword_reply = "none"
          \/ /\ ask.relevant_chunks # <<>>
             /\ ask.stages[1] = "KEYWORD_MATCH"
             /\ ask.keyword_reply \in {"not_found", "error", "config_error"}
    /\ Entered("SLIDING_WINDOW") => ask.windowed_reply = "not_found"

C10_Witness ==
    /\ ask_pc = "sliding"
    /\ ask.stages = <<"KEYWORD_MATCH", "WINDOWED_SAMPLE", "SLIDING_WINDOW">>
    /\ ask.keyword_reply = "error"
    /\ ask.windowed_reply = "not_found"

\* what the caller reads off the returned dictionary: its success flag and,
\* of a failure, its message
Outcome(returned) ==
    IF returned.success THEN "answer_produced"
    ELSE CASE returned.message = "llm_not_available" -> "service_unavailable"
           [] returned.message \in {"no_pdfs", "no_pdf_content", "pdf_no_content"}
                  -> "no_content"
           [] returned.message = "pdf_not_found" -> "not_found"
           [] returned.message = "timed_out" -> "timeout"
           [] OTHER -> "error"

\* the three stages ran and each answer was classified not-found
Exhausted ==
    /\ ask.stages = <<"KEYWORD_MATCH", "WINDOWED_SAMPLE", "SLIDING_WINDOW">>
    /\ ask.keyword_reply = "not_found"
    /\ ask.windowed_reply = "not_found"
    /\ ask.sliding_reply = "not_found"

\* C11: when all three stages report the information absent, the outcome the
\* caller gets is not the answer-produced outcome.
C11_ExhaustedIsNotAnAnswer ==
    (ask_pc = "done" /\ Exhausted) => Outcome(ask.returned) # "answer_produced"

\* the scope of the question holds no document content
NoContentInScope == ask.route # "none" /\ ScopeContents(ask.pdf_id) = <<>>

C13_UnconfiguredIsConfigError ==
    (ask_pc = "done" /\ llm_env = "missing")
        => ask.returned = Failure("llm_not_available")

\* C19: a windowed-sample answer classified not-found is followed by the
\* sliding-window pass, however the windowed-sample stage was reached.
C19_NegativeWindowedLeadsToSliding ==
    ask.windowed_reply = "not_found" => Entered("SLIDING_WINDOW")


\* C14: a resolution that called the generator gives the caller its response
\* within the deadline, and a call still unanswered at the deadline gives the
\* time-out outcome; the simplification call included.
C14_EveryCallBoundedByDeadline ==
    (ask_pc = "done" /\ ask.calls > 0) =>
        /\ ask.elapsed <= ASK_TIMEOUT_S
        /\ ask.cut => Outcome(ask.returned) = "timeout"

\* the number of distinct keywords found in a chunk
DistinctScore(chunk_text, keywords) ==
    Cardinality({keywords[k] : k \in {j \in 1..Len(keywords) :
                                        Contains(Lower(chunk_text), keywords[j])}})

\* C15: the keyword stage keeps exactly the in-scope chunks holding a
\* keyword, orders them by descending count of distinct keywords found and
\* forwards the first 8 at most.
C15_KeywordRankingByDistinctMatches ==
    Entered("KEYWORD_MATCH") =>
        /\ \A i \in 1..Len(ScopeChunks(ask.pdf_id)) :
              (DistinctScore(ScopeChunks(ask.pdf_id)[i].chunk_text, ask.keywords) >= 1)
                 <=> \E j \in 1..Len(ask.relevant_chunks) :
                        /\ ask.relevant_chunks[j].chunk_text
                              = ScopeChunks(ask.pdf_id)[i].chunk_text
                        /\ ask.relevant_chunks[j].pdf_id = ScopeChunks(ask.pdf_id)[i].pdf_id
        /\ Len(ask.relevant_chunks)
              = Cardinality({i \in 1..Len(ScopeChunks(ask.pdf_id)) :
                    DistinctScore(ScopeChunks(ask.pdf_id)[i].chunk_text, ask.keywords) >= 1})
        /\ Len(ask.top_chunks) = Min(TOP_CHUNKS, Len(ask.relevant_chunks))
        /\ \A i, j \in 1..Len(ask.top_chunks) :
              i < j => DistinctScore(ask.top_chunks[i].chunk_text, ask.keywords)
                          >= DistinctScore(ask.top_chunks[j].chunk_text, ask.keywords)

\* C17: the sources of a successful answer of the stages are exactly the
\* documents whose text is in the context that was forwarded.
C17_SourcesAreContributingDocs ==
    (ask_pc = "done" /\ ask.returned.success /\ ask.stages # <<>>) =>
        {ask.returned.sources[i] : i \in 1..Len(ask.returned.sources)} = ask.context_docs

\* how far a resolution has come
PcRank(pc) ==
    CASE pc = "idle" -> 0
      [] pc \in {"followup", "keyword"} -> 1
      [] pc = "windowed" -> 2
      [] pc = "sliding" -> 3
      [] pc = "simplify" -> 4
      [] pc = "done" -> 5

\* C30: a resolution over stored content attempts each of the three stages
\* at most once, calls the generator once for each stage it attempts, and
\* every reply or failure of a call takes it closer to its return: no stage
\* is entered again.
C30_AtMostThreeStagedCalls ==
    /\ [](ask.pdf_contents # <<>> =>
            /\ Len(ask.stages) <= 3
            /\ \A i, j \in 1..Len(ask.stages) : i # j => ask.stages[i] # ask.stages[j]
            /\ ask.calls <= Len(ask.stages) + (IF ask.simplify THEN 1 ELSE 0)
            /\ ask_pc = "done" => ask.result # "none")
    /\ [][PcRank(ask_pc') > PcRank(ask_pc)]_vars

C30_Witness ==
    /\ ask_pc = "done"
    /\ ask.stages = <<"KEYWORD_MATCH", "WINDOWED_SAMPLE", "SLIDING_WINDOW">>
    /\ ask.sliding_reply = "not_found"
    /\ ask.simplify /\ ask.calls = 4
    /\ ask.returned.success

\* C22: the context the sliding-window stage builds has at most
\* CONTEXT_BUDGET characters, over all documents in scope.
C22_SlidingContextWithinBudget ==
    (\E i \in 1..Len(ask.stages) : ask.stages[i] = "SLIDING_WINDOW")
        => ask.context_len <= CONTEXT_BUDGET

(* ----------------------------------------------------------------------- *)
(* Properties of the response cache (checked under SpecCache)              *)
(* ----------------------------------------------------------------------- *)
\* the request is inside a section that reads or writes the cache
InSection(r) == requests[r].pc \in {"check", "insert", "prune", "assign"}

\* an entry leaves the cache only when an entry of its key takes its place or
\* when it has reached the retention time
EntriesKept ==
    \A e \in recent_responses :
        \/ \E e2 \in recent_responses' : e2.key = e.key
        \/ now - e.timestamp >= RETENTION_TTL

\* C23: a request that looks up, inserts into or prunes the cache holds the
\* cache lock while it does, and no entry is lost to the insert or the prune
\* of another request.
C23_CacheSectionsExclusive ==
    /\ [](\A r \in 1..Len(requests) : InSection(r) => response_lock = r)
    /\ [][EntriesKept]_vars

C23_Witness ==
    \E r1, r2 \in 1..Len(requests) :
        /\ requests[r1].pc = "assign" /\ requests[r2].pc = "insert_wait"
        /\ requests[r1].cache_key # requests[r2].cache_key
        /\ Cached(requests[r1].cache_key) # {}

\* C24: when a look-up or an insert has ended, the cache holds no entry older
\* than RETENTION_TTL.
C24_AccessEvictsOldEntries ==
    [][(response_lock # 0 /\ response_lock' = 0)
          => \A e \in recent_responses' : now' - e.timestamp <= RETENTION_TTL]_vars

\* the document scope a request body names: 0 for all documents, -1 for none
RequestScope(pdf_id) == IF pdf_id.kind = "null" THEN 0 ELSE ParseInt(pdf_id)

\* C25: a response served from the cache was stored for the same question
\* and the same document scope and is younger than SERVE_TTL.
C25_ServedFromCacheOnlySameKeyAndFresh ==
    \A r \in 1..Len(requests) :
        requests[r].from_cache =>
            /\ requests[r].response.question = requests[r].question
            /\ requests[r].response.scope = RequestScope(requests[r].pdf_id)
            /\ requests[r].cached_age < SERVE_TTL

\* C29: a question about a PDF that came in after the delete of the PDF had
\* succeeded ends with the not-found failure.
C29_DeletedPdfIsNotFound ==
    \A r \in 1..Len(requests) :
        (/\ requests[r].pc = "done"
         /\ RequestScope(requests[r].pdf_id) \in requests[r].deleted_before)
            => /\ ~requests[r].response.success
               /\ requests[r].response.message = "pdf_not_found"

====
